---- MODULE Spec2Model ----
(***************************************************************************)
(* Model of src/src/ssl_utils.c: the certificate field extractors, the     *)
(* distinguished-name functions, openssl_version_parser and                *)
(* exclude_tls_grease, each called by a caller that hands it a struct      *)
(* buffer {size, area, data}.                                              *)
(*                                                                         *)
(* A call is one action.  The caller prepares a buffer (Prepare), one of   *)
(* the functions runs on it, and the state then holds the buffer as the    *)
(* function left it, the value it returned, the buffer as it was before    *)
(* the call, and the set of indexes >= size the call wrote to.             *)
(***************************************************************************)
EXTENDS Integers, Sequences, FiniteSets, TLC

VARIABLES pc, op, arg, pre, out, oob, ret, numversion, first

vars == <<pc, op, arg, pre, out, oob, ret, numversion, first>>

(***************************************************************************)
(* Bounds of the model.                                                    *)
(***************************************************************************)
MaxCap == 14      \* largest out->size a caller prepares
MaxSerial == 3    \* longest serial number, in bytes
MaxDer == 3       \* longest DER encoding, in bytes
MaxTimeLen == 13  \* longest ASN1_TIME payload
MaxDN == 2        \* most entries in an X509_NAME (ExampleDN apart)
MaxVal == 2       \* longest attribute value in an X509_NAME, in bytes
MaxPos == 3       \* largest |pos| handed to ssl_sock_get_dn_entry
MaxIn == 4        \* longest input of exclude_tls_grease, in bytes
MaxVerLen == 5    \* longest free-form version string

(***************************************************************************)
(* Generic helpers.                                                        *)
(***************************************************************************)
Range(s) == {s[i] : i \in 1..Len(s)}

BSeq(S, n) == UNION {[1..k -> S] : k \in 0..n}

Fill(b, n) == [i \in 1..n |-> b]

RECURSIVE Concat(_)
Concat(ss) == IF ss = <<>> THEN <<>> ELSE Head(ss) \o Concat(Tail(ss))

Prefix(s, n) == SubSeq(s, 1, n)

RECURSIVE SumLen(_)
SumLen(ss) == IF ss = <<>> THEN 0 ELSE Len(Head(ss)) + SumLen(Tail(ss))

(***************************************************************************)
(* struct buffer.  size and data are size_t: unsigned, 64 bits wide in the *)
(* build.  TLC's integers are 32 bits wide, so the model wraps unsigned    *)
(* arithmetic at 2^30 instead of 2^64: every size and length of the model  *)
(* is below 2^5, and all that matters of a wrapped difference is that it   *)
(* is larger than every length.                                            *)
(***************************************************************************)
SIZE_MOD == 2^30

size_sub(a, b) == (a - b + SIZE_MOD) % SIZE_MOD

Buffer(size, data) == [size |-> size, data |-> data, area |-> Fill(0, size)]

\* The buffers a caller hands in: any capacity, any starting length <= it.
Buffers == UNION {{Buffer(s, d) : d \in 0..s} : s \in 0..MaxCap}

\* memcpy(b->area + off, bytes, Len(bytes)): the cells inside the area.
memcpy(b, off, bytes) ==
    [b EXCEPT !.area = [i \in 1..Len(b.area) |->
        IF i - 1 >= off /\ i - 1 < off + Len(bytes)
        THEN bytes[i - off] ELSE b.area[i]]]

\* The indexes at or past b->size that such a memcpy writes to.
overrun(b, off, bytes) ==
    {i \in off..(off + Len(bytes) - 1) : i >= b.size}

\* What a call leaves: its return value, the buffer, the overrun indexes.
Result(r, b, o) == [ret |-> r, out |-> b, oob |-> o]

Min(x, y) == IF x < y THEN x ELSE y

\* The first out->data bytes of the area (those of them inside the area).
Content(b) == Prefix(b.area, Min(b.data, b.size))

(***************************************************************************)
(* Text.  Characters are their ASCII codes.                                *)
(***************************************************************************)
RECURSIVE Decimal(_)
Decimal(n) == IF n < 10 THEN <<48 + n>> ELSE Decimal(n \div 10) \o <<48 + (n % 10)>>

\* chunk_printf(chk, "<prefix>%d", n) of haproxy's chunk.c: vsnprintf into the
\* area (at most size-1 characters and a NUL), -1 when the text and its NUL do
\* not fit, else data = the text's length, which is returned.
chunk_printf(chk, prefix, n) ==
    LET text == prefix \o Decimal(n)
        kept == Prefix(text, IF Len(text) < chk.size THEN Len(text) ELSE chk.size - 1)
    IN  IF chk.size = 0 THEN [len |-> 0, out |-> chk]
        ELSE LET written == memcpy(chk, 0, kept \o <<0>>)
             IN  IF Len(text) >= chk.size THEN [len |-> -1, out |-> written]
                 ELSE [len |-> Len(text), out |-> [written EXCEPT !.data = Len(text)]]

(***************************************************************************)
(* cert_get_pkey_algo.  crt.pkey = [present, id, bits]: present is FALSE   *)
(* when X509_get_pubkey returns NULL; id is EVP_PKEY_base_id and bits is   *)
(* EVP_PKEY_bits.                                                          *)
(***************************************************************************)
pkey_sig(crt) ==
    IF ~crt.pkey.present THEN "anonymous"
    ELSE CASE crt.pkey.id = "RSA" -> "rsa"
           [] crt.pkey.id = "EC"  -> "ecdsa"
           [] crt.pkey.id = "DSA" -> "dsa"
           [] OTHER               -> "anonymous"

pkey_bits(crt) == IF ~crt.pkey.present THEN 0 ELSE crt.pkey.bits

pkey_label(sig) ==
    CASE sig = "rsa"   -> <<82, 83, 65>>
      [] sig = "ecdsa" -> <<69, 67>>
      [] sig = "dsa"   -> <<68, 83, 65>>

cert_get_pkey_algo(crt, b) ==
    LET sig == pkey_sig(crt)
    IN  IF sig = "anonymous" THEN Result(0, b, {})
        ELSE LET p == chunk_printf(b, pkey_label(sig), pkey_bits(crt))
             IN  IF p.len < 0 THEN Result(0, p.out, {})
                 ELSE Result(1, p.out, {})

(***************************************************************************)
(* ssl_sock_get_serial.  crt.serial = [present, data]: present is FALSE    *)
(* when X509_get_serialNumber returns NULL; serial->length is Len(data).   *)
(***************************************************************************)
\* ssl_sock_get_serial resetting the length when there is no serial
ssl_sock_get_serial_reset(crt, b) ==
    LET serial == crt.serial
    IN  IF ~serial.present THEN Result(0, [b EXCEPT !.data = 0], {})
        ELSE IF b.size < Len(serial.data) THEN Result(-1, b, {})
        ELSE Result(1, [memcpy(b, 0, serial.data) EXCEPT !.data = Len(serial.data)],
                    overrun(b, 0, serial.data))

ssl_sock_get_serial(crt, b) ==
    LET serial == crt.serial
    IN  IF ~serial.present THEN Result(0, b, {})
        ELSE IF b.size < Len(serial.data) THEN Result(-1, b, {})
        ELSE Result(1, [memcpy(b, 0, serial.data) EXCEPT !.data = Len(serial.data)],
                    overrun(b, 0, serial.data))

(***************************************************************************)
(* ssl_sock_crt2der.  crt.i2d is what i2d_X509(crt, NULL) returns: a       *)
(* negative value or 0 when the encoding fails, else the length of         *)
(* crt.der, the bytes the second i2d_X509 call writes at p.                *)
(***************************************************************************)
ssl_sock_crt2der(crt, b) ==
    LET len == crt.i2d
    IN  IF len <= 0 THEN Result(1, b, {})
        ELSE IF b.size < len THEN Result(-1, b, {})
        ELSE Result(1, [memcpy(b, 0, crt.der) EXCEPT !.data = len],
                    overrun(b, 0, crt.der))

(***************************************************************************)
(* ssl_sock_get_time.  tm = [type, data]; tm->length is Len(data).         *)
(***************************************************************************)
V_ASN1_UTCTIME == 23
V_ASN1_GENERALIZEDTIME == 24

\* ssl_sock_get_time with the generalized-time capacity test, length-2,
\* repeated in the UTC branch
ssl_sock_get_time_utc_minus2(tm, b) ==
    LET length == Len(tm.data)
    IN  IF tm.type = V_ASN1_GENERALIZEDTIME THEN
            IF length < 12 THEN Result(0, b, {})
            ELSE IF tm.data[1] # 50 \/ tm.data[2] # 48 THEN Result(0, b, {})
            ELSE IF b.size < length - 2 THEN Result(-1, b, {})
            ELSE LET bytes == SubSeq(tm.data, 3, length)
                 IN  Result(1, [memcpy(b, 0, bytes) EXCEPT !.data = length - 2],
                             overrun(b, 0, bytes))
        ELSE IF tm.type = V_ASN1_UTCTIME THEN
            IF length < 10 THEN Result(0, b, {})
            ELSE IF tm.data[1] >= 53 THEN Result(0, b, {})
            ELSE IF b.size < length - 2 THEN Result(-1, b, {})
            ELSE Result(1, [memcpy(b, 0, tm.data) EXCEPT !.data = length],
                        overrun(b, 0, tm.data))
        ELSE Result(0, b, {})

ssl_sock_get_time(tm, b) ==
    LET length == Len(tm.data)
    IN  IF tm.type = V_ASN1_GENERALIZEDTIME THEN
            IF length < 12 THEN Result(0, b, {})
            ELSE IF tm.data[1] # 50 \/ tm.data[2] # 48 THEN Result(0, b, {})
            ELSE IF b.size < length - 2 THEN Result(-1, b, {})
            ELSE LET bytes == SubSeq(tm.data, 3, length)
                 IN  Result(1, [memcpy(b, 0, bytes) EXCEPT !.data = length - 2],
                             overrun(b, 0, bytes))
        ELSE IF tm.type = V_ASN1_UTCTIME THEN
            IF length < 10 THEN Result(0, b, {})
            ELSE IF tm.data[1] >= 53 THEN Result(0, b, {})
            ELSE IF b.size < length THEN Result(-1, b, {})
            ELSE Result(1, [memcpy(b, 0, tm.data) EXCEPT !.data = length],
                        overrun(b, 0, tm.data))
        ELSE Result(0, b, {})

(***************************************************************************)
(* X509_NAME: a sequence of entries [hasSn, sn, oid, value].  The name the *)
(* functions use for an entry is its short name, or the text of its object *)
(* identifier when OBJ_obj2nid or OBJ_nid2sn finds none.                   *)
(***************************************************************************)
entry_name(ne) == IF ne.hasSn THEN ne.sn ELSE ne.oid

toupper(c) == IF c >= 97 /\ c <= 122 THEN c - 32 ELSE c

\* chunk_strcasecmp(chk, str) = 0 of haproxy's chunk.h
chunk_strcasecmp_eq(chk, str) ==
    /\ Len(chk) = Len(str)
    /\ \A i \in 1..Len(chk) : toupper(chk[i]) = toupper(str[i])

(***************************************************************************)
(* ssl_sock_get_dn_entry: the for loop from index i with counter cur, on   *)
(* a buffer whose data was already set to 0.                               *)
(***************************************************************************)
\* dn_entry_loop comparing the counter with pos before stepping it
RECURSIVE dn_entry_loop_compare_first(_, _, _, _, _, _)
dn_entry_loop_compare_first(a, entry, pos, b, i, cur) ==
    LET name_count == Len(a)
    IN  IF ~(i < name_count) THEN Result(0, b, {})
        ELSE LET j    == IF pos < 0 THEN (name_count - 1) - i ELSE i
                 ne   == a[j + 1]
                 cur2 == IF pos < 0 THEN cur - 1 ELSE cur + 1
             IN  IF ~chunk_strcasecmp_eq(entry, entry_name(ne))
                 THEN dn_entry_loop_compare_first(a, entry, pos, b, i + 1, cur)
                 ELSE IF cur # pos
                 THEN dn_entry_loop_compare_first(a, entry, pos, b, i + 1, cur2)
                 ELSE IF Len(ne.value) > b.size THEN Result(-1, b, {})
                 ELSE Result(1, [memcpy(b, 0, ne.value) EXCEPT !.data = Len(ne.value)],
                             overrun(b, 0, ne.value))

RECURSIVE dn_entry_loop(_, _, _, _, _, _)
dn_entry_loop(a, entry, pos, b, i, cur) ==
    LET name_count == Len(a)
    IN  IF ~(i < name_count) THEN Result(0, b, {})
        ELSE LET j    == IF pos < 0 THEN (name_count - 1) - i ELSE i
                 ne   == a[j + 1]
                 cur2 == IF pos < 0 THEN cur - 1 ELSE cur + 1
             IN  IF ~chunk_strcasecmp_eq(entry, entry_name(ne))
                 THEN dn_entry_loop(a, entry, pos, b, i + 1, cur)
                 ELSE IF cur2 # pos
                 THEN dn_entry_loop(a, entry, pos, b, i + 1, cur2)
                 ELSE IF Len(ne.value) > b.size THEN Result(-1, b, {})
                 ELSE Result(1, [memcpy(b, 0, ne.value) EXCEPT !.data = Len(ne.value)],
                             overrun(b, 0, ne.value))

ssl_sock_get_dn_entry(a, entry, pos, b) ==
    dn_entry_loop(a, entry, pos, [b EXCEPT !.data = 0], 0, 0)

(***************************************************************************)
(* ssl_sock_get_dn_formatted.  X509_NAME_print_ex with XN_FLAG_RFC2253     *)
(* writes the entries last to first, "name=value" joined by ","; printOk   *)
(* is FALSE when it returns a negative value.  BIO_read hands over at most *)
(* out->size bytes of that text and returns their number, or a value <= 0  *)
(* when there is nothing to hand over.                                     *)
(***************************************************************************)
RECURSIVE rfc2253(_)
rfc2253(a) ==
    IF a = <<>> THEN <<>>
    ELSE LET ne == a[Len(a)]
             rest == Prefix(a, Len(a) - 1)
         IN  entry_name(ne) \o <<61>> \o ne.value
             \o (IF rest = <<>> THEN <<>> ELSE <<44>> \o rfc2253(rest))

RFC2253_TAG == <<114, 102, 99, 50, 50, 53, 51>>

ssl_sock_get_dn_formatted(a, format, printOk, b) ==
    IF format # RFC2253_TAG THEN Result(0, b, {})
    ELSE IF ~printOk THEN Result(0, b, {})
    ELSE LET text == rfc2253(a)
             data_len == IF Len(text) < b.size THEN Len(text) ELSE b.size
             bytes == Prefix(text, data_len)
         IN  IF data_len <= 0 THEN Result(0, b, {})
             ELSE Result(1, [memcpy(b, 0, bytes) EXCEPT !.data = data_len],
                         overrun(b, 0, bytes))

(***************************************************************************)
(* ssl_sock_get_dn_oneline: the for loop from index i with running length  *)
(* l, on a buffer whose data was already set to 0; o collects overruns.    *)
(***************************************************************************)
\* dn_oneline_loop setting out->data before the capacity test
RECURSIVE dn_oneline_loop_len_first(_, _, _, _, _)
dn_oneline_loop_len_first(a, b, i, l, o) ==
    IF ~(i < Len(a)) THEN Result(IF b.data = 0 THEN 0 ELSE 1, b, o)
    ELSE LET ne == a[i + 1]
             s  == entry_name(ne)
             l2 == l + 1 + Len(s) + 1 + Len(ne.value)
             piece == <<47>> \o s \o <<61>> \o ne.value
         IN  IF l2 > b.size THEN Result(-1, [b EXCEPT !.data = l2], o)
             ELSE dn_oneline_loop_len_first(a, [memcpy(b, l, piece) EXCEPT !.data = l2],
                                            i + 1, l2, o \cup overrun(b, l, piece))

RECURSIVE dn_oneline_loop(_, _, _, _, _)
dn_oneline_loop(a, b, i, l, o) ==
    IF ~(i < Len(a)) THEN Result(IF b.data = 0 THEN 0 ELSE 1, b, o)
    ELSE LET ne == a[i + 1]
             s  == entry_name(ne)
             l2 == l + 1 + Len(s) + 1 + Len(ne.value)
             piece == <<47>> \o s \o <<61>> \o ne.value
         IN  IF l2 > b.size THEN Result(-1, b, o)
             ELSE dn_oneline_loop(a, [memcpy(b, l, piece) EXCEPT !.data = l2],
                                  i + 1, l2, o \cup overrun(b, l, piece))

ssl_sock_get_dn_oneline(a, b) ==
    dn_oneline_loop(a, [b EXCEPT !.data = 0], 0, 0, {})

(***************************************************************************)
(* exclude_tls_grease(input, len, output) with len = Len(input).  The      *)
(* while loop from offset ptr; o collects the indexes written at or past   *)
(* output->size.  The area of the model holds the cells below size only.   *)
(***************************************************************************)
is_grease(x, y) == x = y /\ x % 16 = 10

RECURSIVE grease_loop(_, _, _, _)
grease_loop(input, b, ptr, o) ==
    IF ~(ptr < Len(input) - 1) THEN [ptr |-> ptr, out |-> b, oob |-> o]
    ELSE IF ~is_grease(input[ptr + 1], input[ptr + 2])
    THEN IF b.data <= size_sub(b.size, 2)
         THEN LET pair == SubSeq(input, ptr + 1, ptr + 2)
              IN  grease_loop(input,
                              [memcpy(b, b.data, pair) EXCEPT !.data = b.data + 2],
                              ptr + 2, o \cup overrun(b, b.data, pair))
         ELSE [ptr |-> ptr, out |-> b, oob |-> o]
    ELSE grease_loop(input, b, ptr + 2, o)

exclude_tls_grease(input, b) ==
    LET w == grease_loop(input, b, 0, {})
    IN  IF size_sub(w.out.size, w.out.data) > 0 /\ Len(input) - w.ptr > 0
        THEN LET last == <<input[w.ptr + 1]>>
             IN  Result(0, [memcpy(w.out, w.out.data, last)
                               EXCEPT !.data = w.out.data + 1],
                        w.oob \cup overrun(w.out, w.out.data, last))
        ELSE Result(0, w.out, w.oob)

\* What a reader of b finds in its first data bytes: the cells of the area,
\* and for an index at or past size whatever the memory after the area holds.
ReadBack(b, bytes) ==
    LET k == IF b.data < b.size THEN b.data ELSE b.size
    IN  {Prefix(b.area, k) \o t : t \in [1..(b.data - k) -> bytes]}

(***************************************************************************)
(* strtol(s + p - 1, &end, 10), p counted from 1, for a long of lb bits,   *)
(* and its conversion to unsigned int.  The magnitude is kept in four      *)
(* 16-bit limbs, least significant first (TLC's integers are 32 bits       *)
(* wide); over is set once it reaches 2^(lb-1), where strtol returns       *)
(* LONG_MAX or LONG_MIN.  An unsigned int is the pair <<high 16 bits, low  *)
(* 16 bits>>.  White space and '+' are not in the model's alphabet.        *)
(***************************************************************************)
CharAt(s, i) == IF i >= 1 /\ i <= Len(s) THEN s[i] ELSE 0

isdigit(c) == c >= 48 /\ c <= 57

limbs_mul10_add(m, d) ==
    LET t0 == m.l[1] * 10 + d
        t1 == m.l[2] * 10 + t0 \div 65536
        t2 == m.l[3] * 10 + t1 \div 65536
        t3 == m.l[4] * 10 + t2 \div 65536
        l  == <<t0 % 65536, t1 % 65536, t2 % 65536, t3 % 65536>>
        big == IF m.lb = 64 THEN t3 \div 65536 > 0 \/ l[4] >= 32768
               ELSE t3 \div 65536 > 0 \/ l[4] > 0 \/ l[3] > 0 \/ l[2] >= 32768
    IN  [l |-> l, lb |-> m.lb, over |-> m.over \/ big]

RECURSIVE strtol_digits(_, _, _)
strtol_digits(s, p, m) ==
    IF isdigit(CharAt(s, p))
    THEN strtol_digits(s, p + 1, limbs_mul10_add(m, CharAt(s, p) - 48))
    ELSE [end |-> p, m |-> m]

\* (unsigned int) of the long that strtol returns
long_to_uint(m, neg) ==
    IF m.over
    THEN IF m.lb = 64 THEN (IF neg THEN <<0, 0>> ELSE <<65535, 65535>>)
         ELSE (IF neg THEN <<32768, 0>> ELSE <<32767, 65535>>)
    ELSE IF ~neg THEN <<m.l[2], m.l[1]>>
    ELSE IF m.l[1] = 0 THEN <<(65536 - m.l[2]) % 65536, 0>>
    ELSE <<65535 - m.l[2], 65536 - m.l[1]>>

strtol(s, p, lb) ==
    LET neg   == CharAt(s, p) = 45
        start == IF neg THEN p + 1 ELSE p
        d     == strtol_digits(s, start, [l |-> <<0, 0, 0, 0>>, lb |-> lb, over |-> FALSE])
    IN  IF d.end = start THEN [val |-> <<0, 0>>, end |-> p]
        ELSE [val |-> long_to_uint(d.m, neg), end |-> d.end]

\* u > k for an unsigned int u and a constant k < 65536
uint_gt(u, k) == u[1] > 0 \/ u[2] > k

(***************************************************************************)
(* openssl_version_parser.  The result, an unsigned int, is the pair       *)
(* <<high 16 bits, low 16 bits>>.                                          *)
(***************************************************************************)
BETA == <<98, 101, 116, 97>>

\* the while loop of the patch release branch: patch += (*p & ~0x20) - 'A'.
\* patch is kept as an integer; only patch & 0xff is used, which is
\* patch % 256 whatever multiple of 2^32 the unsigned sum dropped.
\* patch_loop with the letters counted from 1 ('A' gives 1), not from 0
RECURSIVE patch_loop_from1(_, _, _)
patch_loop_from1(s, p, patch) ==
    IF CharAt(s, p) = 0 THEN patch
    ELSE LET c == CharAt(s, p)
             u == IF (c \div 32) % 2 = 1 THEN c - 32 ELSE c
         IN  patch_loop_from1(s, p + 1, patch + (u - 64))

RECURSIVE patch_loop(_, _, _)
patch_loop(s, p, patch) ==
    IF CharAt(s, p) = 0 THEN patch
    ELSE LET c == CharAt(s, p)
             u == IF (c \div 32) % 2 = 1 THEN c - 32 ELSE c
         IN  patch_loop(s, p + 1, patch + (u - 65))

numversion_pack(major, minor, fix, patch, status) ==
    << (major % 16) * 4096 + (minor % 256) * 16 + (fix % 256) \div 16,
       ((fix % 256) % 16) * 4096 + (patch % 256) * 16 + (status % 16) >>

openssl_version_parser(version, lb) ==
    IF CharAt(version, 1) = 0 THEN <<0, 0>>
    ELSE
    LET major == strtol(version, 1, lb)
    IN  IF CharAt(version, major.end) # 46 \/ uint_gt(major.val, 15) THEN <<0, 0>>
        ELSE
    LET minor == strtol(version, major.end + 1, lb)
    IN  IF CharAt(version, minor.end) # 46 \/ uint_gt(minor.val, 255) THEN <<0, 0>>
        ELSE
    LET fix == strtol(version, minor.end + 1, lb)
        p   == fix.end
    IN  IF uint_gt(fix.val, 255) THEN <<0, 0>>
        ELSE IF CharAt(version, p) = 0
        THEN numversion_pack(major.val[2], minor.val[2], fix.val[2], 0, 15)
        ELSE IF CharAt(version, p) = 45
        THEN IF p + 4 <= Len(version) /\ SubSeq(version, p + 1, p + 4) = BETA
             THEN LET status == strtol(version, p + 5, lb)
                  IN  IF uint_gt(status.val, 14) THEN <<0, 0>>
                      ELSE numversion_pack(major.val[2], minor.val[2], fix.val[2],
                                           0, status.val[2])
             ELSE numversion_pack(major.val[2], minor.val[2], fix.val[2], 0, 0)
        ELSE numversion_pack(major.val[2], minor.val[2], fix.val[2],
                             patch_loop(version, p, 1), 15)

(***************************************************************************)
(* The inputs the callers of the model hand in.                            *)
(***************************************************************************)
NoArg == [none |-> TRUE]

SerialBytes == {1, 2}

Serials == {[present |-> FALSE, data |-> <<>>]}
             \cup {[present |-> TRUE, data |-> d] : d \in BSeq(SerialBytes, MaxSerial)}

\* i2d_X509 fails with a negative value or 0, or encodes 1..MaxDer bytes
DerCerts == {[i2d |-> n, der |-> Fill(48, IF n > 0 THEN n ELSE 0)] : n \in -1..MaxDer}

PKeys == {[present |-> FALSE, id |-> "none", bits |-> 0]}
           \cup {[present |-> TRUE, id |-> id, bits |-> bits] :
                   id \in {"RSA", "EC", "DSA", "DH"}, bits \in {0, 256, 2048}}

\* ASN1_TIME payloads: two leading characters, then '0's and a final 'Z'
TimeData(c0, c1, n) == <<c0, c1>> \o Fill(48, n - 3) \o <<90>>

Times == {[type |-> t, data |-> TimeData(c0, c1, n)] :
            t \in {V_ASN1_UTCTIME, V_ASN1_GENERALIZEDTIME, 4},
            c0 \in {49, 50, 52, 53}, c1 \in {48, 57}, n \in 9..MaxTimeLen}

CN == <<67, 78>>
O_ == <<79>>
OID_2_5 == <<50, 46, 53>>

Entry(sn, value) == [hasSn |-> TRUE, sn |-> sn, oid |-> <<>>, value |-> value]

Entries == {Entry(CN, <<97>>), Entry(O_, <<98>>), Entry(CN, <<99>>),
            [hasSn |-> FALSE, sn |-> <<>>, oid |-> OID_2_5, value |-> Fill(100, MaxVal)]}

\* the name [(CN,a),(O,b),(CN,c)]
ExampleDN == <<Entry(CN, <<97>>), Entry(O_, <<98>>), Entry(CN, <<99>>)>>

Names == BSeq(Entries, MaxDN) \cup {ExampleDN}

Filters == {CN, <<99, 110>>, OID_2_5}

Formats == {RFC2253_TAG, <<114, 102, 99>>}

GreaseBytes == {10, 19, 1}

GreaseExample == <<10, 10, 19, 1, 26, 26>>

GreaseInputs == BSeq(GreaseBytes, MaxIn) \cup {GreaseExample}

\* what the memory past the end of an area may hold when it is read back
MemoryBytes == GreaseBytes

\* version strings: every string over VerChars up to MaxVerLen characters,
\* the strings "<major>.<minor>.<fix><suffix>" over the parts below, and
\* the strings without two dots
VerChars == {48, 50, 46, 45, 122}

Str1 == <<49>>

Majors == {<<48>>, <<49>>, <<51>>, <<49, 53>>, <<49, 54>>,
           <<52, 50, 57, 52, 57, 54, 55, 50, 57, 54>>,
           <<52, 50, 57, 52, 57, 54, 55, 50, 57, 55>>}

Minors == {<<48>>, <<57>>, <<50, 53, 53>>, <<50, 53, 54>>}

Fixes == {<<48>>, <<50>>, <<56>>, <<50, 53, 53>>, <<50, 53, 54>>}

S_alpha17 == <<45, 97, 108, 112, 104, 97, 49, 55>>
S_beta == <<45>> \o BETA
S_a == <<97>>
S_u == <<117>>
S_z == <<122>>
S_za == <<122, 97>>
S_zh == <<122, 104>>

Suffixes == {<<>>, S_alpha17, S_beta, S_beta \o <<48>>, S_beta \o <<50>>,
             S_beta \o <<49, 52>>, S_beta \o <<49, 53>>, S_a, S_u, S_z, S_za, S_zh,
             <<65>>}

Dotted(M, m, f, sfx) == M \o <<46>> \o m \o <<46>> \o f \o sfx

Versions == BSeq(VerChars, MaxVerLen)
              \cup {Dotted(M, m, f, x) : M \in Majors, m \in Minors, f \in Fixes, x \in Suffixes}
              \cup {Str1, Str1 \o <<46>> \o <<48>>}

\* the width of long in the build: 64 bits (LP64) or 32 bits (ILP32)
LongBits == {32, 64}

(***************************************************************************)
(* The state machine.                                                      *)
(***************************************************************************)
Init ==
    /\ pc = "idle"
    /\ op = "none"
    /\ arg = NoArg
    /\ pre = Buffer(0, 0)
    /\ out = Buffer(0, 0)
    /\ oob = {}
    /\ ret = 0
    /\ numversion = <<0, 0>>
    /\ first = Buffer(0, 0)

\* the caller sets up an output buffer
Prepare ==
    /\ pc = "idle"
    /\ pc' = "ready"
    /\ \E b \in Buffers : out' = b /\ pre' = b
    /\ UNCHANGED <<op, arg, oob, ret, numversion, first>>

\* the caller is done with the result
Return ==
    /\ pc \in {"done", "again"}
    /\ pc' = "idle"
    /\ op' = "none"
    /\ arg' = NoArg
    /\ pre' = Buffer(0, 0)
    /\ out' = Buffer(0, 0)
    /\ oob' = {}
    /\ ret' = 0
    /\ numversion' = <<0, 0>>
    /\ first' = Buffer(0, 0)

Call(name, a, r) ==
    /\ pc = "ready"
    /\ pc' = "done"
    /\ op' = name
    /\ arg' = a
    /\ pre' = out
    /\ out' = r.out
    /\ oob' = r.oob
    /\ ret' = r.ret
    /\ UNCHANGED <<numversion, first>>

PkeyAlgo ==
    \E k \in PKeys :
        Call("cert_get_pkey_algo", [pkey |-> k], cert_get_pkey_algo([pkey |-> k], out))

GetSerial ==
    \E sn \in Serials :
        Call("ssl_sock_get_serial", [serial |-> sn], ssl_sock_get_serial([serial |-> sn], out))

Crt2der ==
    \E c \in DerCerts : Call("ssl_sock_crt2der", c, ssl_sock_crt2der(c, out))

GetTime ==
    \E tm \in Times : Call("ssl_sock_get_time", tm, ssl_sock_get_time(tm, out))

GetDnEntry ==
    \E a \in Names, e \in Filters, pos \in -MaxPos..MaxPos :
        Call("ssl_sock_get_dn_entry", [a |-> a, entry |-> e, pos |-> pos],
             ssl_sock_get_dn_entry(a, e, pos, out))

GetDnFormatted ==
    \E a \in Names, f \in Formats, ok \in BOOLEAN :
        Call("ssl_sock_get_dn_formatted", [a |-> a, format |-> f, printOk |-> ok],
             ssl_sock_get_dn_formatted(a, f, ok, out))

GetDnOneline ==
    \E a \in Names :
        Call("ssl_sock_get_dn_oneline", [a |-> a], ssl_sock_get_dn_oneline(a, out))

ExcludeGrease ==
    \E input \in GreaseInputs :
        Call("exclude_tls_grease", [input |-> input], exclude_tls_grease(input, out))

\* the caller filters the output of a call once more, into an empty buffer
\* of the same capacity
ExcludeGreaseAgain ==
    /\ pc = "done"
    /\ op = "exclude_tls_grease"
    /\ pc' = "again"
    /\ \E input \in ReadBack(out, MemoryBytes) :
         LET r == exclude_tls_grease(input, Buffer(out.size, 0))
         IN  /\ arg' = [input |-> input, was |-> arg.input]
             /\ out' = r.out
             /\ oob' = r.oob
             /\ ret' = r.ret
    /\ first' = out
    /\ UNCHANGED <<op, pre, numversion>>

VersionParser ==
    /\ pc = "idle"
    /\ pc' = "done"
    /\ op' = "openssl_version_parser"
    /\ \E v \in Versions, lb \in LongBits :
         /\ arg' = [version |-> v, lb |-> lb]
         /\ numversion' = openssl_version_parser(v, lb)
    /\ UNCHANGED <<pre, out, oob, ret, first>>

NextBuf ==
    \/ Prepare
    \/ Return
    \/ PkeyAlgo
    \/ GetSerial
    \/ Crt2der
    \/ GetTime
    \/ GetDnEntry
    \/ GetDnFormatted
    \/ GetDnOneline

NextGrease ==
    \/ Prepare
    \/ Return
    \/ ExcludeGrease
    \/ ExcludeGreaseAgain

NextVer ==
    \/ VersionParser
    \/ Return

Next ==
    \/ Prepare
    \/ Return
    \/ PkeyAlgo
    \/ GetSerial
    \/ Crt2der
    \/ GetTime
    \/ GetDnEntry
    \/ GetDnFormatted
    \/ GetDnOneline
    \/ ExcludeGrease
    \/ ExcludeGreaseAgain
    \/ VersionParser

\* every function of the file
Spec == Init /\ [][Next]_vars

\* the certificate and distinguished-name functions
SpecBuf == Init /\ [][NextBuf]_vars

\* exclude_tls_grease
SpecGrease == Init /\ [][NextGrease]_vars

\* openssl_version_parser
SpecVer == Init /\ [][NextVer]_vars

(***************************************************************************)
(* Properties.                                                             *)
(***************************************************************************)
Done(name) == pc = "done" /\ op = name

Writers == {"ssl_sock_get_serial", "ssl_sock_crt2der", "ssl_sock_get_time",
            "ssl_sock_get_dn_entry", "ssl_sock_get_dn_oneline", "exclude_tls_grease"}

\* C1: whatever the input, the capacity (0 and 1 included) and the starting
\* length <= capacity, a writer writes no byte at an index >= capacity and
\* leaves length <= capacity.
C1_WithinCapacity ==
    (pc = "done" /\ op \in Writers /\ pre.data <= pre.size)
        => (oob = {} /\ out.data <= out.size)

\* C3: ssl_sock_crt2der returns 0, never 1, when the sizing call returns a
\* non-positive length; it returns 1 only with the certificate encoded into
\* the buffer and the length set to the computed size.
C3_FailureIsNotSuccess ==
    Done("ssl_sock_crt2der")
        => /\ (arg.i2d <= 0 => ret = 0)
           /\ (ret = 1 => arg.i2d > 0 /\ out.data = arg.i2d /\ Content(out) = arg.der)

\* the 2-byte pairs of an input at its even offsets
Pairs(input) == [k \in 1..(Len(input) \div 2) |-> <<input[2 * k - 1], input[2 * k]>>]

NotGrease(pair) == ~(pair[1] = pair[2] /\ pair[1] % 16 = 10)

\* What C8 describes for an empty output buffer of capacity cap: the pairs
\* that are not GREASE, whole pairs only while 2 bytes of capacity remain,
\* then the final byte of an odd-length input if 1 byte of capacity remains.
GreaseFiltered(input, cap) ==
    LET kept  == SelectSeq(Pairs(input), NotGrease)
        n     == Min(Len(kept), cap \div 2)
        pairs == Concat(Prefix(kept, n))
    IN  IF Len(input) % 2 = 1 /\ cap - 2 * n >= 1
        THEN pairs \o <<input[Len(input)]>>
        ELSE pairs

\* C8: on an empty output buffer exclude_tls_grease produces exactly the
\* non-GREASE pairs of the input, in order and as whole pairs, followed by
\* the final byte of an odd-length input when a byte of capacity remains: no
\* byte of a pair alone, no odd-length output from an even-length input.
C8_FiltersWholePairs ==
    (Done("exclude_tls_grease") /\ pre.data = 0)
        => /\ out.data <= out.size
           /\ Content(out) = GreaseFiltered(arg.input, out.size)
           /\ (Len(arg.input) % 2 = 0 => out.data % 2 = 0)

RECURSIVE DigitRun(_, _)
\* the index after the run of digits of s that starts at index p
DigitRun(s, p) == IF isdigit(CharAt(s, p)) THEN DigitRun(s, p + 1) ELSE p

RECURSIVE StripZeros(_)
StripZeros(d) == IF Len(d) > 1 /\ d[1] = 48 THEN StripZeros(Tail(d)) ELSE d

RECURSIVE DecValue(_)
DecValue(d) == IF d = <<>> THEN 0 ELSE DecValue(Prefix(d, Len(d) - 1)) * 10 + (d[Len(d)] - 48)

\* the number written by the digits d is at most k (k < 1000)
DecLE(d, k) == Len(StripZeros(d)) <= 3 /\ DecValue(StripZeros(d)) <= k

isletter(c) == (c >= 65 /\ c <= 90) \/ (c >= 97 /\ c <= 122)

RECURSIVE LetterSum(_)
LetterSum(w) == IF w = <<>> THEN 0 ELSE (toupper(Head(w)) - 65) + LetterSum(Tail(w))

Shape(s) ==
    LET e1 == DigitRun(s, 1)
        e2 == DigitRun(s, e1 + 1)
        e3 == DigitRun(s, e2 + 1)
    IN  [major |-> SubSeq(s, 1, e1 - 1),
         dot1  |-> CharAt(s, e1) = 46,
         minor |-> IF e1 < Len(s) THEN SubSeq(s, e1 + 1, e2 - 1) ELSE <<>>,
         dot2  |-> CharAt(s, e2) = 46,
         fix   |-> IF e2 < Len(s) THEN SubSeq(s, e2 + 1, e3 - 1) ELSE <<>>,
         rest  |-> IF e3 <= Len(s) THEN SubSeq(s, e3, Len(s)) ELSE <<>>]

Ordinal(major, minor, fix, patch, status) ==
    << major * 4096 + minor * 16 + fix \div 16, (fix % 16) * 4096 + patch * 16 + status >>

\* "rule" when a rule of C6 is violated, "value" when the rules give a
\* version number, "open" for a string the rules do not speak of
Verdict(s) ==
    LET sh == Shape(s)
        r  == sh.rest
        n  == IF Len(r) > 5 THEN SubSeq(r, 6, Len(r)) ELSE <<>>
    IN  IF s = <<>> THEN "rule"
        ELSE IF sh.major = <<>> THEN "open"
        ELSE IF ~sh.dot1 \/ ~DecLE(sh.major, 15) THEN "rule"
        ELSE IF sh.minor = <<>> THEN "open"
        ELSE IF ~sh.dot2 \/ ~DecLE(sh.minor, 255) THEN "rule"
        ELSE IF sh.fix = <<>> THEN "open"
        ELSE IF ~DecLE(sh.fix, 255) THEN "rule"
        ELSE IF r = <<>> THEN "value"
        ELSE IF r[1] = 45 THEN
            IF Len(r) >= 5 /\ SubSeq(r, 1, 5) = <<45>> \o BETA
            THEN IF n # <<>> /\ \A i \in 1..Len(n) : isdigit(n[i])
                 THEN (IF DecLE(n, 14) THEN "value" ELSE "rule")
                 ELSE "open"
            ELSE "value"
        ELSE IF (\A i \in 1..Len(r) : isletter(r[i])) /\ 1 + LetterSum(r) <= 255
        THEN "value" ELSE "open"

\* the version number of a string whose verdict is "value"
Denoted(s) ==
    LET sh == Shape(s)
        r  == sh.rest
        M  == DecValue(StripZeros(sh.major))
        m  == DecValue(StripZeros(sh.minor))
        f  == DecValue(StripZeros(sh.fix))
    IN  IF r = <<>> THEN Ordinal(M, m, f, 0, 15)
        ELSE IF r[1] = 45 THEN
            IF Len(r) >= 5 /\ SubSeq(r, 1, 5) = <<45>> \o BETA
            THEN Ordinal(M, m, f, 0, DecValue(StripZeros(SubSeq(r, 6, Len(r)))))
            ELSE Ordinal(M, m, f, 0, 0)
        ELSE Ordinal(M, m, f, 1 + LetterSum(r), 15)

\* the worked examples of C6: 0x0090821f, 0x1000215f, 0x30000000,
\* 0x30000002, 0x3000000e, 0x3000000f, and 0 for "" and "1"
Worked ==
    { <<Dotted(<<48>>, <<57>>, <<56>>, S_zh),           <<144, 33311>>>>,
      <<Dotted(<<49>>, <<48>>, <<50>>, S_u),            <<4096, 8543>>>>,
      <<Dotted(<<51>>, <<48>>, <<48>>, S_alpha17),      <<12288, 0>>>>,
      <<Dotted(<<51>>, <<48>>, <<48>>, S_beta \o <<50>>), <<12288, 2>>>>,
      <<Dotted(<<51>>, <<48>>, <<48>>, S_beta \o <<49, 52>>), <<12288, 14>>>>,
      <<Dotted(<<51>>, <<48>>, <<48>>, <<>>),           <<12288, 15>>>>,
      <<<<>>, <<0, 0>>>>,
      <<Str1, <<0, 0>>>> }

\* C6: openssl_version_parser returns the packed version number the rules
\* give, and 0 when a rule is violated (empty string, major or minor not
\* followed by '.', major > 0xF, minor > 0xFF, fix > 0xFF, beta number > 14);
\* in particular it returns the values of the worked examples.
C6_ParsesByTheRules ==
    Done("openssl_version_parser")
        => /\ (Verdict(arg.version) = "rule"  => numversion = <<0, 0>>)
           /\ (Verdict(arg.version) = "value" => numversion = Denoted(arg.version))
           /\ \A w \in Worked : arg.version = w[1] => numversion = w[2]

\* the fields of a packed version number
MajorOf(nv)  == nv[1] \div 4096
MinorOf(nv)  == (nv[1] \div 16) % 256
FixOf(nv)    == (nv[1] % 16) * 16 + nv[2] \div 4096
PatchOf(nv)  == (nv[2] \div 16) % 256
StatusOf(nv) == nv[2] % 16

\* the call parsed "<M>.<m>.<f><letters>" with M <= 15, m <= 255, f <= 255
ParsedLetters(letters) ==
    /\ Done("openssl_version_parser")
    /\ \E M \in Majors, m \in Minors, f \in Fixes :
         /\ DecLE(M, 15) /\ DecLE(m, 255) /\ DecLE(f, 255)
         /\ arg.version = Dotted(M, m, f, letters)

Version_1_0_2u == Dotted(<<49>>, <<48>>, <<50>>, S_u)

\* C7 as stated: trailing 'a' gives patch 1, 'z' gives 26, 'za' gives 51, and
\* "1.0.2u" gives major 1, minor 0, fix 2, status 0xF and patch 22.
C7_PatchAsStated ==
    /\ (ParsedLetters(S_a)  => PatchOf(numversion) = 1)
    /\ (ParsedLetters(S_z)  => PatchOf(numversion) = 26)
    /\ (ParsedLetters(S_za) => PatchOf(numversion) = 51)
    /\ (Done("openssl_version_parser") /\ arg.version = Version_1_0_2u
          => /\ MajorOf(numversion) = 1 /\ MinorOf(numversion) = 0
             /\ FixOf(numversion) = 2 /\ StatusOf(numversion) = 15
             /\ PatchOf(numversion) = 22)

\* C7 amended: trailing 'a' gives patch 1, 'z' gives 26, 'za' gives 26
\* (1 + 25 + 0), each with status 0xF, and "1.0.2u" gives major 1, minor 0,
\* fix 2, status 0xF and patch 21 (1 + 20), the 0x1000215f of the source.
C7_PatchLetterSum ==
    /\ (ParsedLetters(S_a)  => PatchOf(numversion) = 1 /\ StatusOf(numversion) = 15)
    /\ (ParsedLetters(S_z)  => PatchOf(numversion) = 26 /\ StatusOf(numversion) = 15)
    /\ (ParsedLetters(S_za) => PatchOf(numversion) = 26 /\ StatusOf(numversion) = 15)
    /\ (Done("openssl_version_parser") /\ arg.version = Version_1_0_2u
          => /\ MajorOf(numversion) = 1 /\ MinorOf(numversion) = 0
             /\ FixOf(numversion) = 2 /\ StatusOf(numversion) = 15
             /\ PatchOf(numversion) = 21
             /\ numversion = <<4096, 8543>>)

\* C7's case: "<M>.<m>.<f>za" was parsed and its patch field is 26
C7_Witness == ParsedLetters(S_za) /\ PatchOf(numversion) = 26

(***************************************************************************)
(* ssl_sock_get_dn_entry: the entry a call selects, stated on the list of  *)
(* the entries whose name matches.                                         *)
(***************************************************************************)
Matching(a, entry) ==
    LET Test(ne) == chunk_strcasecmp_eq(entry, entry_name(ne))
    IN  SelectSeq(a, Test)

\* the index in Matching of the entry pos selects, pos >= 0 counted from
\* first (0 or 1) and pos < 0 counted from the end; 0 when there is none
SelectedIndex(n, pos, from) ==
    LET idx == IF pos >= 0 THEN pos + 1 - from ELSE n + 1 + pos
    IN  IF idx >= 1 /\ idx <= n THEN idx ELSE 0

DnEntryAsSelected(from) ==
    Done("ssl_sock_get_dn_entry")
        => LET m   == Matching(arg.a, arg.entry)
               idx == SelectedIndex(Len(m), arg.pos, from)
           IN  IF idx = 0 THEN ret = 0 /\ out.data = 0
               ELSE IF Len(m[idx].value) > out.size THEN ret = -1 /\ out.data = 0
               ELSE ret = 1 /\ Content(out) = m[idx].value
                            /\ out.data = Len(m[idx].value)

DnEntryExample(pos, r, value) ==
    (Done("ssl_sock_get_dn_entry") /\ arg.a = ExampleDN /\ arg.entry = CN
       /\ arg.pos = pos /\ out.size >= 1)
        => (ret = r /\ Content(out) = value)

\* C2 as stated: pos >= 0 selects the pos-th match from the start with pos = 0
\* the first one, pos < 0 the |pos|-th from the end; on [(CN,a),(O,b),(CN,c)]
\* with filter CN, pos 0 gives a, 1 gives c, -1 gives c, -2 gives a, 2 gives 0.
C2_ZeroBased ==
    /\ DnEntryAsSelected(0)
    /\ DnEntryExample(0, 1, <<97>>)
    /\ DnEntryExample(1, 1, <<99>>)
    /\ DnEntryExample(-1, 1, <<99>>)
    /\ DnEntryExample(-2, 1, <<97>>)
    /\ DnEntryExample(2, 0, <<>>)

\* C2 amended: pos > 0 selects the pos-th match from the start with pos = 1
\* the first one, pos < 0 the |pos|-th from the end, and pos = 0 selects
\* nothing; on [(CN,a),(O,b),(CN,c)] with filter CN, pos 1 gives a, 2 gives c,
\* -1 gives c, -2 gives a, and 0 and 3 give NotFound (return 0).
C2_OneBased ==
    /\ DnEntryAsSelected(1)
    /\ DnEntryExample(1, 1, <<97>>)
    /\ DnEntryExample(2, 1, <<99>>)
    /\ DnEntryExample(-1, 1, <<99>>)
    /\ DnEntryExample(-2, 1, <<97>>)
    /\ DnEntryExample(0, 0, <<>>)
    /\ DnEntryExample(3, 0, <<>>)

\* C2's case: pos 2 on the example name returned the second CN, c
C2_Witness ==
    /\ Done("ssl_sock_get_dn_entry") /\ arg.a = ExampleDN /\ arg.entry = CN
    /\ arg.pos = 2 /\ ret = 1 /\ Content(out) = <<99>> /\ out.data = 1

WholeValue == {"ssl_sock_get_serial", "ssl_sock_get_time", "cert_get_pkey_algo",
               "ssl_sock_get_dn_formatted"}

\* C4 as stated: when a whole-value extractor returns NotFound (0) the
\* buffer length is 0 after the call, whatever it was before.
C4_NotFoundResetsLength ==
    (pc = "done" /\ op \in WholeValue /\ ret = 0) => out.data = 0

\* C4 amended: when a whole-value extractor returns NotFound (0) the buffer
\* length is what it was before the call: it is not reset.
C4_NotFoundKeepsLength ==
    (pc = "done" /\ op \in WholeValue /\ ret = 0) => out.data = pre.data

\* C4's case: no serial, a buffer that held 2 bytes, and it still holds 2
C4_Witness ==
    /\ Done("ssl_sock_get_serial") /\ ~arg.serial.present
    /\ ret = 0 /\ pre.data = 2 /\ out.data = 2

(***************************************************************************)
(* The size a call needs to hold its value; -1 when the input has no       *)
(* value for it.                                                           *)
(***************************************************************************)
TimeNeeded(tm) ==
    IF tm.type = V_ASN1_GENERALIZEDTIME /\ Len(tm.data) >= 12
       /\ tm.data[1] = 50 /\ tm.data[2] = 48 THEN Len(tm.data) - 2
    ELSE IF tm.type = V_ASN1_UTCTIME /\ Len(tm.data) >= 10 /\ tm.data[1] < 53
    THEN Len(tm.data)
    ELSE -1

OnelinePieces(a) ==
    [i \in 1..Len(a) |-> <<47>> \o entry_name(a[i]) \o <<61>> \o a[i].value]

Needed ==
    CASE op = "ssl_sock_get_serial" ->
           IF arg.serial.present THEN Len(arg.serial.data) ELSE -1
      [] op = "ssl_sock_crt2der" -> IF arg.i2d > 0 THEN arg.i2d ELSE -1
      [] op = "ssl_sock_get_time" -> TimeNeeded(arg)
      [] op = "ssl_sock_get_dn_entry" ->
           LET m   == Matching(arg.a, arg.entry)
               idx == SelectedIndex(Len(m), arg.pos, 1)
           IN  IF idx = 0 THEN -1 ELSE Len(m[idx].value)
      [] op = "ssl_sock_get_dn_oneline" ->
           IF arg.a = <<>> THEN -1 ELSE SumLen(OnelinePieces(arg.a))
      [] op = "cert_get_pkey_algo" ->
           IF pkey_sig(arg) = "anonymous" THEN -1
           ELSE Len(pkey_label(pkey_sig(arg)) \o Decimal(pkey_bits(arg)))
      [] OTHER -> -1

TriState == {"ssl_sock_get_serial", "ssl_sock_crt2der", "ssl_sock_get_time",
             "ssl_sock_get_dn_entry", "ssl_sock_get_dn_oneline"}

\* C5 as stated: cert_get_pkey_algo, ssl_sock_get_serial, ssl_sock_crt2der,
\* ssl_sock_get_time, ssl_sock_get_dn_entry and ssl_sock_get_dn_oneline return
\* TooSmall (-1) whenever the value exists and needs more than the capacity;
\* the serial extractor then leaves the buffer length unchanged.
C5_TooSmallEverywhere ==
    (pc = "done" /\ op \in TriState \cup {"cert_get_pkey_algo"} /\ Needed > out.size)
        => /\ ret = -1
           /\ (op = "ssl_sock_get_serial" => out.data = pre.data)

\* C5 amended: ssl_sock_get_serial, ssl_sock_crt2der, ssl_sock_get_time,
\* ssl_sock_get_dn_entry and ssl_sock_get_dn_oneline return TooSmall (-1)
\* whenever the value exists and needs more than the capacity, the serial
\* extractor leaving the buffer length unchanged; cert_get_pkey_algo never
\* returns -1, and returns 0 or 1 when its label does not fit.
C5_TooSmallButPkey ==
    /\ (pc = "done" /\ op \in TriState /\ Needed > out.size)
         => /\ ret = -1
            /\ (op = "ssl_sock_get_serial" => out.data = pre.data)
    /\ Done("cert_get_pkey_algo") => ret \in {0, 1}

\* C5's case: a serial longer than the capacity, refused with the 2 bytes
\* the buffer held still counted
C5_Witness ==
    /\ Done("ssl_sock_get_serial") /\ arg.serial.present
    /\ Len(arg.serial.data) > out.size
    /\ ret = -1 /\ pre.data = 2 /\ out.data = 2

\* the number of leading pieces that fit together in cap bytes
RECURSIVE FitCount(_, _)
FitCount(pieces, cap) ==
    IF pieces = <<>> \/ Len(Head(pieces)) > cap THEN 0
    ELSE 1 + FitCount(Tail(pieces), cap - Len(Head(pieces)))

ExampleOneline == <<47, 67, 78, 61, 97, 47, 79, 61, 98, 47, 67, 78, 61, 99>>

\* C10: ssl_sock_get_dn_oneline ends in one of three ways: 0 with length 0
\* iff the name has no entries; 1 with the buffer holding '/' name '=' value
\* of every entry in order iff the name has entries and they fit; else -1 with
\* the buffer holding the longest prefix of whole entries that fits and the
\* length that of this prefix.  The example name gives "/CN=a/O=b/CN=c".
C10_OnelineThreeWays ==
    Done("ssl_sock_get_dn_oneline")
        => LET pieces == OnelinePieces(arg.a)
               total  == SumLen(pieces)
               fit    == Concat(Prefix(pieces, FitCount(pieces, out.size)))
           IN  /\ ret \in {0, 1, -1}
               /\ (ret = 0 <=> arg.a = <<>>)
               /\ (ret = 1 <=> (arg.a # <<>> /\ total <= out.size))
               /\ (ret = 0 => out.data = 0)
               /\ (ret = 1 => out.data = total /\ Content(out) = Concat(pieces))
               /\ (ret = -1 => out.data = Len(fit) /\ Content(out) = fit
                                /\ out.data <= out.size)
               /\ (ret = 1 /\ arg.a = ExampleDN => Content(out) = ExampleOneline)

\* C10's case: the example name in a buffer too small for its third entry,
\* refused with "/CN=a/O=b" in the buffer
C10_Witness ==
    /\ Done("ssl_sock_get_dn_oneline") /\ arg.a = ExampleDN
    /\ ret = -1 /\ out.data = 9 /\ Content(out) = Prefix(ExampleOneline, 9)

====
